---- MODULE Spec2Model ----
(***************************************************************************)
(* A model of MNIST_project.py: a linear script that one-hot encodes the   *)
(* MNIST labels, declares a Sequential convolutional network, trains it    *)
(* with model.fit under an EarlyStopping callback and reports the result.  *)
(*                                                                         *)
(* The script delegates to tensorflow.keras; each call is modelled by what *)
(* the called routine does with the arguments the script passes.  Four     *)
(* specifications cover the four stages the script runs one after another: *)
(*   SpecEncode  lines 86-90    to_categorical on the label arrays         *)
(*   SpecBuild   lines 120-158  shape inference of the Sequential stack    *)
(*   SpecBatch   lines 196-202  validation split and batching inside fit   *)
(*   Spec        lines 187-262  the epoch loop, EarlyStopping, the report  *)
(* Losses are integers in tenths (0.9 is 9); only their order matters as   *)
(* min_delta is 0.  Parameters are identified by the epoch that produced   *)
(* them (0: the initial parameters).                                       *)
(***************************************************************************)
EXTENDS Integers, Sequences, FiniteSets, TLC

VARIABLES
    \* ---- the training run (Spec) ----
    pc,             \* stage of the script: "fit", "trained", "plotted", "reported", "failed"
    build,          \* which Keras generation is installed (the script pins none)
    epoch,          \* number of epochs run so far
    weights,        \* model parameters: the epoch whose updates produced them
    stop_training,  \* model.stop_training
    wait,           \* EarlyStopping.wait
    best,           \* EarlyStopping.best
    best_weights,   \* EarlyStopping.best_weights (NoWeights: None)
    stopped_epoch,  \* EarlyStopping.stopped_epoch (0-based, 0: never stopped)
    history,        \* history.history: metric name -> per-epoch sequence
    report,         \* what lines 252-262 print
    \* ---- one-hot encoding (SpecEncode) ----
    epc,            \* stage: "encode_train", "encode_test", "fit", "evaluate", "done", "failed"
    training_labels,
    testing_labels,
    categorical_training_outputs,
    categorical_testing_outputs,
    \* ---- model construction (SpecBuild) ----
    bpc,            \* "building", "built", "failed"
    input_shape,    \* training_images.shape[1:]
    layer_index,    \* layers of the stack added so far
    shape,          \* output shape of the last layer added (batch axis left out)
    shape_log,      \* output shape of each layer added so far
    \* ---- batching inside fit (SpecBatch) ----
    phase,          \* "split", "between" (epochs), "epoch", or "idle"
    num_samples,    \* samples handed to fit
    val_set,        \* indices held out for validation
    bepoch,         \* epochs completed by the batch loop
    indices,        \* this epoch's shuffled order so far, batch by batch
    batch,          \* the batch taken and not yet trained on ({}: none)
    step,           \* train steps done in this epoch
    trained,        \* sample -> train steps it was part of this epoch
    updates,        \* parameter updates performed this epoch
    batch_sizes,    \* sizes of the batches taken this epoch
    validated       \* per finished epoch, the samples its validation pass used

fitVars    == <<pc, build, epoch, weights, stop_training, wait, best, best_weights,
                stopped_epoch, history, report>>
encVars    == <<epc, training_labels, testing_labels, categorical_training_outputs,
                categorical_testing_outputs>>
buildVars  == <<bpc, input_shape, layer_index, shape, shape_log>>
batchVars  == <<phase, num_samples, val_set, bepoch, indices, batch, step, trained,
                updates, batch_sizes, validated>>
vars       == <<fitVars, encVars, buildVars, batchVars>>

(***************************************************************************)
(* Program constants (lines 24-28, 191).                                   *)
(***************************************************************************)
EPOCHS == 20
BATCH == 32
SPLIT_TENTHS == 1
patience == 3
min_delta == 0
SHUFFLE == TRUE
\* The width of the network's output, Dense(10) (line 156).
NUM_CLASSES == 10
\* The number of training samples the sample grid shows, range(20) (line 97).
SAMPLES_SHOWN == 20

(***************************************************************************)
(* Bounds of the model.                                                    *)
(***************************************************************************)
MaxLoss == 30
\* Labels are drawn from -LabelSlack .. NUM_CLASSES - 1 + LabelSlack; a
\* training set has at most MaxLabels freely chosen labels, alone or followed
\* by repetitions of the last of them up to SAMPLES_SHOWN labels.
LabelSlack == 2
MaxLabels == 2
\* Image sides are drawn from 1..MaxSide.
MaxSide == 28
\* fit is handed SAMPLES_SHOWN..MaxSamples samples.
MaxSamples == 38

\* numpy's nan and None, as values outside the ranges they mark.
NaN == -1
NoWeights == -1
Inf == MaxLoss + 1
\* EarlyStopping.best before any epoch, in the build that starts it at None.
NoBest == -2

\* The script runs on any TensorFlow from 2.0 on.  EarlyStopping differs
\* between generations in three places, all modelled:
\*   "legacy"  keeps no snapshot before the first improvement, so restoring
\*             at a stop that no improvement preceded raises;
\*   "tf2"     snapshots the first epoch's parameters as a fallback and
\*             restores in on_epoch_end, only at an early stop;
\*   "keras3"  snapshots likewise and restores in on_train_end, also when
\*             training ran all its epochs;
\*   "keras3_none"  is keras3 with best starting at None instead of inf, and
\*             anything compared with None counting as an improvement: a nan
\*             loss at the first epoch becomes the best seen, and nothing
\*             compares below nan afterwards.
Builds == {"legacy", "tf2", "keras3", "keras3_none"}
\* on_train_begin: the value best starts from.
InitialBest(b) == IF b = "keras3_none" THEN NoBest ELSE Inf
\* The builds that restore the snapshot in on_train_end.
RestoresAtTrainEnd(b) == b \in {"keras3", "keras3_none"}

\* Idle values of the variables a specification does not use.
IdleFit ==
    /\ pc = "idle" /\ build = "tf2" /\ epoch = 0 /\ weights = 0
    /\ stop_training = FALSE /\ wait = 0 /\ best = Inf /\ best_weights = NoWeights
    /\ stopped_epoch = 0 /\ history = <<>> /\ report = <<>>
IdleEncode ==
    /\ epc = "idle" /\ training_labels = <<>> /\ testing_labels = <<>>
    /\ categorical_training_outputs = <<>> /\ categorical_testing_outputs = <<>>
IdleBuild ==
    /\ bpc = "idle" /\ input_shape = <<>> /\ layer_index = 0 /\ shape = <<>> /\ shape_log = <<>>
IdleBatch ==
    /\ phase = "idle" /\ num_samples = 0 /\ val_set = {} /\ bepoch = 0
    /\ indices = <<>> /\ batch = {} /\ step = 0 /\ trained = <<>> /\ updates = 0
    /\ batch_sizes = <<>> /\ validated = <<>>

(***************************************************************************)
(* The training run: model.compile, EarlyStopping, model.fit, the plots    *)
(* and the final report (lines 187-262).                                   *)
(***************************************************************************)

\* np.less as EarlyStopping's monitor_op for mode='auto' and monitor 'val_loss':
\* any comparison with nan is False.
monitor_op(a, b) == a # NaN /\ b # NaN /\ a < b

\* The per-epoch validation loss is scripted.  A script is a steady descent
\* (one level lower every epoch) for any number of epochs, followed by any
\* sequence of the values 0.5, 0.9 and MaxLoss; once a loss is nan the
\* parameters are non-finite and every later loss is nan.
DescentLoss(e) == MaxLoss - e
ScriptedLosses == {5, 9, MaxLoss}
IsDescent(vl) == \A i \in 1..Len(vl) : vl[i] = DescentLoss(i)
ValLossChoices(vl) ==
    IF vl # <<>> /\ vl[Len(vl)] = NaN THEN {NaN}
    ELSE ScriptedLosses \cup {NaN}
         \cup (IF IsDescent(vl) THEN {DescentLoss(Len(vl) + 1)} ELSE {})

\* The other three metrics of epoch e under the stub: the training loss is
\* non-finite exactly when the validation loss is, and an accuracy is the
\* number of the epoch it was measured in.
TrainLoss(e, v) == IF v = NaN THEN NaN ELSE MaxLoss - e
TrainAccuracy(e) == e
ValAccuracy(e) == e
\* model.evaluate on the test set: a function of the parameters alone.
TestAccuracy(w) == w
TestLoss(w) == MaxLoss - w

EmptyHistory == [loss |-> <<>>, accuracy |-> <<>>, val_loss |-> <<>>, val_accuracy |-> <<>>]

InitFit ==
    /\ pc = "fit"
    /\ build \in Builds
    /\ epoch = 0
    /\ weights = 0
    /\ stop_training = FALSE
    /\ wait = 0
    /\ best = InitialBest(build)
    /\ best_weights = NoWeights
    /\ stopped_epoch = 0
    /\ history = EmptyHistory
    /\ report = <<>>

\* EarlyStopping.on_epoch_end(epoch, logs) with monitor='val_loss', min_delta=0,
\* patience=3, restore_best_weights=True.  e0 is Keras's 0-based epoch, w the
\* model's parameters when the callback runs, current the logged val_loss.
\* The result is the callback's and the model's state afterwards; raised
\* says that set_weights(None) threw (the legacy build keeps no snapshot
\* before the first improvement).
\* Improved is _is_improvement: anything improves on None, otherwise np.less
\* decides.  (First a faulty variant, the comparison of mode 'max'.)
ImprovedMax(current, b) == b = NoBest \/ monitor_op(b, current + min_delta)
Improved(current, b) == b = NoBest \/ monitor_op(current - min_delta, b)

FirstSnapshot(b, bw, w) ==
    IF b # "legacy" /\ bw = NoWeights THEN w ELSE bw

\* The stopping test; the later builds add "and epoch > 0".  (First a faulty
\* variant that stops one epoch early.)
PatienceOffByOne(b, wt, e0) == wt + 1 >= patience /\ (b = "legacy" \/ e0 > 0)
PatienceExceeded(b, wt, e0) == wt >= patience /\ (b = "legacy" \/ e0 > 0)

on_epoch_end(b, e0, current, w, cb) ==
    LET bw0 == FirstSnapshot(b, cb.best_weights, w) IN
    IF Improved(current, cb.best)
    THEN [wait |-> 0, best |-> current, best_weights |-> w,
          stopped_epoch |-> cb.stopped_epoch, stop_training |-> FALSE,
          weights |-> w, raised |-> FALSE]
    ELSE LET wt == cb.wait + 1 IN
         IF PatienceExceeded(b, wt, e0)
         THEN [wait |-> wt, best |-> cb.best, best_weights |-> bw0,
               stopped_epoch |-> e0, stop_training |-> TRUE,
               weights |-> IF RestoresAtTrainEnd(b) \/ bw0 = NoWeights THEN w ELSE bw0,
               raised |-> (b = "legacy" /\ bw0 = NoWeights)]
         ELSE [wait |-> wt, best |-> cb.best, best_weights |-> bw0,
               stopped_epoch |-> cb.stopped_epoch, stop_training |-> FALSE,
               weights |-> w, raised |-> FALSE]

\* History.on_epoch_end: one value appended to each of the four metrics.
\* (First a faulty variant that misses the first val_accuracy.)
HistoryAppendNoVal(h, e, v) ==
    [loss         |-> Append(h.loss, TrainLoss(e, v)),
     accuracy     |-> Append(h.accuracy, TrainAccuracy(e)),
     val_loss     |-> Append(h.val_loss, v),
     val_accuracy |-> IF e = 1 THEN h.val_accuracy ELSE Append(h.val_accuracy, ValAccuracy(e))]
HistoryAppend(h, e, v) ==
    [loss         |-> Append(h.loss, TrainLoss(e, v)),
     accuracy     |-> Append(h.accuracy, TrainAccuracy(e)),
     val_loss     |-> Append(h.val_loss, v),
     val_accuracy |-> Append(h.val_accuracy, ValAccuracy(e))]

\* One iteration of fit's epoch loop: the batches update the parameters, the
\* validation pass logs val_loss = v, then the callbacks run (EarlyStopping
\* before History, which Keras appends last).
Epoch(v) ==
    /\ pc = "fit"
    /\ ~stop_training
    /\ epoch < EPOCHS
    /\ LET e  == epoch + 1
           r  == on_epoch_end(build, epoch, v, e,
                              [wait |-> wait, best |-> best,
                               best_weights |-> best_weights,
                               stopped_epoch |-> stopped_epoch])
       IN /\ epoch' = e
          /\ wait' = r.wait
          /\ best' = r.best
          /\ best_weights' = r.best_weights
          /\ stopped_epoch' = r.stopped_epoch
          /\ stop_training' = r.stop_training
          /\ weights' = r.weights
          /\ IF r.raised
             THEN pc' = "failed" /\ history' = history
             ELSE pc' = "fit" /\ history' = HistoryAppend(history, e, v)
    /\ UNCHANGED <<build, report>>
    /\ UNCHANGED <<encVars, buildVars, batchVars>>

\* EarlyStopping.on_train_end: Keras 3 restores the snapshot here, whether or
\* not training was stopped early.
on_train_end(b, bw, w) ==
    IF RestoresAtTrainEnd(b) /\ bw # NoWeights THEN bw ELSE w

\* fit returns: the loop ran EPOCHS epochs or a callback set stop_training.
FitReturn ==
    /\ pc = "fit"
    /\ (stop_training \/ epoch >= EPOCHS)
    /\ weights' = on_train_end(build, best_weights, weights)
    /\ pc' = "trained"
    /\ UNCHANGED <<build, epoch, stop_training, wait, best, best_weights,
                   stopped_epoch, history, report>>
    /\ UNCHANGED <<encVars, buildVars, batchVars>>

\* Lines 205-248: the loss and accuracy curves are drawn from history.history.
Plot ==
    /\ pc = "trained"
    /\ pc' = "plotted"
    /\ UNCHANGED <<build, epoch, weights, stop_training, wait, best, best_weights,
                   stopped_epoch, history, report>>
    /\ UNCHANGED <<encVars, buildVars, batchVars>>

\* Lines 252-262: model.evaluate on the test set with the current parameters,
\* then the printed figures: the last entries of history for training and
\* validation accuracy, and the test accuracy.
Last(s) == s[Len(s)]

\* Lines 253-262: model.evaluate on the current parameters, and the last
\* History entries printed beside its result.
FinalReport(h, w) ==
    [test_loss  |-> TestLoss(w),
     test_acc   |-> TestAccuracy(w),
     evaluated  |-> w,
     train_acc  |-> Last(h.accuracy),
     val_acc    |-> Last(h.val_accuracy)]

Report ==
    /\ pc = "plotted"
    /\ report' = FinalReport(history, weights)
    /\ pc' = "reported"
    /\ UNCHANGED <<build, epoch, weights, stop_training, wait, best, best_weights,
                   stopped_epoch, history>>
    /\ UNCHANGED <<encVars, buildVars, batchVars>>

Init == InitFit /\ IdleEncode /\ IdleBuild /\ IdleBatch

Next ==
    \/ \E v \in ValLossChoices(history.val_loss) : Epoch(v)
    \/ FitReturn
    \/ Plot
    \/ Report

Spec == Init /\ [][Next]_vars

(***************************************************************************)
(* Properties of the training run.                                         *)
(***************************************************************************)
val_loss == history.val_loss
Returned == pc \in {"trained", "plotted", "reported"}

\* Epoch i set a new strict minimum of the validation losses vl[1..i].
NewMinimum(vl, i) ==
    /\ vl[i] # NaN
    /\ \A j \in 1..(i - 1) : vl[j] = NaN \/ vl[i] < vl[j]
\* patience consecutive epochs, the last of them epoch i, set no new minimum.
StalledAt(vl, i) ==
    /\ i >= patience
    /\ \A j \in (i - patience + 1)..i : ~NewMinimum(vl, j)
\* The epoch that achieved the minimum validation loss (0: no epoch had one).
BestEpoch(vl) ==
    IF \A i \in 1..Len(vl) : vl[i] = NaN THEN 0
    ELSE CHOOSE i \in 1..Len(vl) : NewMinimum(vl, i) /\ \A j \in 1..Len(vl) : vl[j] = NaN \/ vl[i] <= vl[j]
StrictlyDecreasing(vl) ==
    \A i \in 1..Len(vl) : vl[i] # NaN /\ (i > 1 => vl[i] < vl[i - 1])

\* C1 as stated: for every scripted sequence of validation losses, training
\* goes on exactly as long as no patience (3) consecutive epochs have passed
\* without a new strict minimum (an equal loss is no minimum); at the first
\* epoch that completes such a run fit stops, and once fit has returned from
\* such a stop the model's parameters are those of the epoch that achieved
\* the minimum validation loss.
C1_EarlyStopRestoresBest ==
    /\ \A i \in 1..(Len(val_loss) - 1) : ~StalledAt(val_loss, i)
    /\ (pc = "fit" /\ Len(val_loss) > 0)
          => (stop_training <=> StalledAt(val_loss, Len(val_loss)))
    /\ (Returned /\ StalledAt(val_loss, Len(val_loss)) /\ BestEpoch(val_loss) > 0)
          => weights = BestEpoch(val_loss)
\* The same on the runs whose first validation loss is a number: there it
\* holds in every build.
FirstLossFinite == val_loss = <<>> \/ val_loss[1] # NaN
EarlyStopRestoresBestAfterFiniteStart ==
    FirstLossFinite => C1_EarlyStopRestoresBest
\* A run that stopped early and restored an epoch that a later epoch equalled.
C1_Witness ==
    /\ pc = "trained"
    /\ stop_training
    /\ Len(val_loss) < EPOCHS
    /\ StalledAt(val_loss, Len(val_loss))
    /\ BestEpoch(val_loss) > 1
    /\ weights = BestEpoch(val_loss)
    /\ \E i \in 1..Len(val_loss) : i > weights /\ val_loss[i] = val_loss[weights]

\* The script of the spec's example, in tenths.
ExampleScript == <<9, 5, 5, 5, 5>>
IsPrefix(s, t) == Len(s) <= Len(t) /\ \A i \in 1..Len(s) : s[i] = t[i]

\* C2 as stated: under the script 0.9, 0.5, 0.5, 0.5, 0.5 training stops
\* after epoch 4 and the parameters after fit are those of epoch 2.
C2_StopsAfterEpoch4 ==
    (pc = "trained" /\ IsPrefix(val_loss, ExampleScript))
        => (Len(val_loss) = 4 /\ weights = 2)
\* C2 as amended: under the script 0.9, 0.5, 0.5, 0.5, 0.5 training stops
\* after epoch 5 (epochs 3, 4 and 5 are the three without improvement), not
\* earlier, and the parameters after fit are those of epoch 2.
C2_StopsAfterEpoch5 ==
    /\ (pc = "fit" /\ IsPrefix(val_loss, ExampleScript) /\ Len(val_loss) < 5)
          => ~stop_training
    /\ (pc = "fit" /\ val_loss = ExampleScript) => stop_training
    /\ (pc = "trained" /\ IsPrefix(val_loss, ExampleScript))
          => (Len(val_loss) = 5 /\ weights = 2)
C2_Witness ==
    pc = "trained" /\ val_loss = ExampleScript /\ weights = 2

HistoryLengthsEqual ==
    /\ Len(history.loss) = Len(history.val_loss)
    /\ Len(history.accuracy) = Len(history.val_loss)
    /\ Len(history.val_accuracy) = Len(history.val_loss)

\* C3 as stated: after fit the four metric sequences have one length, at
\* most EPOCHS, and strictly less than EPOCHS whenever early stopping
\* triggered.
C3_ShorterWheneverStopped ==
    Returned =>
        /\ HistoryLengthsEqual
        /\ Len(val_loss) <= EPOCHS
        /\ (stop_training => Len(val_loss) < EPOCHS)
\* C3 as amended: after fit the four metric sequences have one length, at
\* most EPOCHS; when early stopping triggered the length is the epoch at
\* which it triggered (at least patience, and nothing is recorded after it),
\* so it is strictly less than EPOCHS unless the patience counter reached
\* its limit exactly at the last scheduled epoch, where the length is
\* EPOCHS; without early stopping the length is EPOCHS.
C3_HistoryLength ==
    Returned =>
        /\ HistoryLengthsEqual
        /\ Len(val_loss) <= EPOCHS
        /\ stop_training =>
              /\ Len(val_loss) = stopped_epoch + 1
              /\ Len(val_loss) >= patience
              /\ epoch = Len(val_loss)
        /\ ~stop_training => Len(val_loss) = EPOCHS
C3_Witness ==
    /\ pc = "trained"
    /\ stop_training
    /\ Len(val_loss) = EPOCHS
    /\ Len(history.accuracy) = EPOCHS
    /\ StalledAt(val_loss, EPOCHS)

\* C4: if the validation loss strictly decreases at every epoch, early
\* stopping never triggers and fit returns only after all EPOCHS (20)
\* epochs, with exactly EPOCHS entries per metric.
C4_DecreasingRunsAllEpochs ==
    StrictlyDecreasing(val_loss) =>
        /\ ~stop_training
        /\ pc # "failed"
        /\ Returned =>
              /\ Len(val_loss) = EPOCHS
              /\ Len(history.loss) = EPOCHS
              /\ Len(history.accuracy) = EPOCHS
              /\ Len(history.val_accuracy) = EPOCHS
C4_Witness ==
    /\ pc = "trained"
    /\ StrictlyDecreasing(val_loss)
    /\ Len(val_loss) = EPOCHS

\* C7 as stated: a non-finite training or validation loss in some epoch
\* aborts the run at that epoch: no further epoch is recorded and the script
\* reaches neither the plots nor the evaluation and report.
C7_DivergenceAborts ==
    \A i \in 1..Len(val_loss) :
        (val_loss[i] = NaN \/ history.loss[i] = NaN)
            => (pc = "failed" /\ i = Len(val_loss))

\* C10 as stated: whenever early stopping triggered, the training and
\* validation accuracies printed are the last History entries, those of the
\* stopping epoch; the stopping epoch is patience (3) epochs later than the
\* best epoch, whose restored parameters the test accuracy printed beside
\* them is computed with; so the printed training and validation figures
\* are those of another epoch than the parameters tested.
C10_ReportMixesEpochs ==
    (pc = "reported" /\ stop_training) =>
        LET n == Len(val_loss) IN
        /\ n = stopped_epoch + 1
        /\ report.train_acc = history.accuracy[n]
        /\ report.val_acc = history.val_accuracy[n]
        /\ report.evaluated = weights
        /\ n = report.evaluated + patience
        /\ report.evaluated # n
        /\ BestEpoch(val_loss) > 0 => report.evaluated = BestEpoch(val_loss)
\* The same on the runs whose first validation loss is a number: there it
\* holds in every build.
ReportMixesEpochsAfterFiniteStart ==
    FirstLossFinite => C10_ReportMixesEpochs
\* A report after an early stop whose best epoch was not the first.
C10_Witness ==
    /\ pc = "reported"
    /\ stop_training
    /\ BestEpoch(val_loss) > 1
    /\ report.evaluated = BestEpoch(val_loss)
    /\ report.train_acc = TrainAccuracy(report.evaluated + patience)

(***************************************************************************)
(* One-hot encoding: to_categorical(training_labels) and                   *)
(* to_categorical(testing_labels) (lines 86, 90), then the two consumers   *)
(* of the encoded arrays, model.fit (line 196) and model.evaluate (253).   *)
(***************************************************************************)
Labels == (0 - LabelSlack)..(NUM_CLASSES - 1 + LabelSlack)
LabelBatches == UNION {[1..n -> Labels] : n \in 1..MaxLabels}

\* np.max(y)
np_max(y) == CHOOSE m \in {y[i] : i \in 1..Len(y)} : \A i \in 1..Len(y) : y[i] <= m

\* The script passes no num_classes, so to_categorical takes np.max(y) + 1.
num_classes(y) == np_max(y) + 1

\* categorical[np.arange(n), y] = 1: numpy takes a negative index from the
\* end of the axis and raises IndexError outside -n .. n-1.
index_in_bounds(k, n) == (0 - n) <= k /\ k < n
np_index(k, n) == IF k < 0 THEN k + n ELSE k
one_hot_row(k, n) == [j \in 1..n |-> IF j = np_index(k, n) + 1 THEN 1 ELSE 0]

\* to_categorical(y): the encoded rows, or the exception numpy raises
\* (np.zeros of a negative width: ValueError).
to_categorical(y) ==
    LET n == num_classes(y) IN
    IF n < 0 THEN [error |-> "ValueError", rows |-> <<>>]
    ELSE IF \E i \in 1..Len(y) : ~index_in_bounds(y[i], n)
         THEN [error |-> "IndexError", rows |-> <<>>]
         ELSE [error |-> "none", rows |-> [i \in 1..Len(y) |-> one_hot_row(y[i], n)]]

\* categorical_crossentropy accepts targets only of the width of the
\* network's output; otherwise the first batch raises ValueError.
targets_fit_output(rows) == \A i \in 1..Len(rows) : Len(rows[i]) = NUM_CLASSES

\* The training label arrays: the short batches, which the sample grid
\* cannot index, and the same batches continued to SAMPLES_SHOWN labels.
Continued(p) == [i \in 1..SAMPLES_SHOWN |-> IF i <= Len(p) THEN p[i] ELSE p[Len(p)]]
TrainingLabelArrays == LabelBatches \cup {Continued(p) : p \in LabelBatches}

InitEncode ==
    /\ epc = "encode_train"
    /\ training_labels \in TrainingLabelArrays
    /\ testing_labels \in [1..1 -> Labels]
    /\ categorical_training_outputs = <<>>
    /\ categorical_testing_outputs = <<>>

\* Line 86.
EncodeTraining ==
    /\ epc = "encode_train"
    /\ LET r == to_categorical(training_labels) IN
       /\ categorical_training_outputs' = r.rows
       /\ epc' = IF r.error = "none" THEN "encode_test" ELSE "failed"
    /\ UNCHANGED <<training_labels, testing_labels, categorical_testing_outputs>>
    /\ UNCHANGED <<fitVars, buildVars, batchVars>>

\* Line 90.
EncodeTesting ==
    /\ epc = "encode_test"
    /\ LET r == to_categorical(testing_labels) IN
       /\ categorical_testing_outputs' = r.rows
       /\ epc' = IF r.error = "none" THEN "show" ELSE "failed"
    /\ UNCHANGED <<training_labels, testing_labels, categorical_training_outputs>>
    /\ UNCHANGED <<fitVars, buildVars, batchVars>>

\* Lines 96-101: the grid of the first SAMPLES_SHOWN training images with
\* their labels; training_images[i] raises IndexError past the last sample
\* (images and labels come in pairs).
ShowSamples ==
    /\ epc = "show"
    /\ epc' = IF Len(training_labels) >= SAMPLES_SHOWN THEN "fit" ELSE "failed"
    /\ UNCHANGED <<training_labels, testing_labels, categorical_training_outputs,
                   categorical_testing_outputs>>
    /\ UNCHANGED <<fitVars, buildVars, batchVars>>

\* Line 196: training runs on the encoded training labels.
Fit ==
    /\ epc = "fit"
    /\ epc' = IF targets_fit_output(categorical_training_outputs)
              THEN "evaluate" ELSE "failed"
    /\ UNCHANGED <<training_labels, testing_labels, categorical_training_outputs,
                   categorical_testing_outputs>>
    /\ UNCHANGED <<fitVars, buildVars, batchVars>>

\* Line 253: evaluation runs on the encoded testing labels.
Evaluate ==
    /\ epc = "evaluate"
    /\ epc' = IF targets_fit_output(categorical_testing_outputs)
              THEN "done" ELSE "failed"
    /\ UNCHANGED <<training_labels, testing_labels, categorical_training_outputs,
                   categorical_testing_outputs>>
    /\ UNCHANGED <<fitVars, buildVars, batchVars>>

NextEncode == EncodeTraining \/ EncodeTesting \/ ShowSamples \/ Fit \/ Evaluate

SpecEncodeInit == IdleFit /\ InitEncode /\ IdleBuild /\ IdleBatch
SpecEncode == SpecEncodeInit /\ [][NextEncode]_vars

RECURSIVE SumTo(_, _)
SumTo(row, n) == IF n = 0 THEN 0 ELSE row[n] + SumTo(row, n - 1)
InClassRange(y) == \A i \in 1..Len(y) : y[i] \in 0..(NUM_CLASSES - 1)
\* rows is the one-hot encoding of y over NUM_CLASSES classes.
IsOneHotOf(rows, y) ==
    /\ Len(rows) = Len(y)
    /\ \A i \in 1..Len(y) :
          /\ Len(rows[i]) = NUM_CLASSES
          /\ SumTo(rows[i], Len(rows[i])) = 1
          /\ rows[i][y[i] + 1] = 1
\* Line 86 has run; line 90 has run (it runs only after line 86 succeeded).
TrainingAttempted == epc # "encode_train"
TestingAttempted ==
    epc \notin {"encode_train", "encode_test"} /\ categorical_training_outputs # <<>>

\* C5 as stated: every batch of labels that all lie in 0..9 is encoded, each
\* label as a vector of length exactly 10 that sums to 1 with its 1 at the
\* label's index, whichever label values occur in the batch.
C5_OneHotTenWide ==
    /\ (TrainingAttempted /\ InClassRange(training_labels))
          => IsOneHotOf(categorical_training_outputs, training_labels)
    /\ (TestingAttempted /\ InClassRange(testing_labels))
          => IsOneHotOf(categorical_testing_outputs, testing_labels)

\* C6 as stated: a label outside 0..9 makes the encoding fail and produce no
\* encoded vector, and the script does not go on to training with it.
C6_InvalidLabelRejected ==
    /\ (TrainingAttempted /\ ~InClassRange(training_labels))
          => (epc = "failed" /\ categorical_training_outputs = <<>>)
    /\ (TestingAttempted /\ ~InClassRange(testing_labels))
          => (epc = "failed" /\ categorical_testing_outputs = <<>>)

(***************************************************************************)
(* Model construction: Sequential([...]) (lines 120-158).  Keras infers    *)
(* every layer's output shape as the layer is added and raises ValueError  *)
(* where a layer cannot take its input.                                    *)
(***************************************************************************)
Conv2D(filters, kernel_size, padding) ==
    [kind |-> "conv", filters |-> filters, kernel_size |-> kernel_size,
     padding |-> padding, pool_size |-> 0, strides |-> 1, units |-> 0]
MaxPooling2D(pool_size, strides) ==
    [kind |-> "pool", filters |-> 0, kernel_size |-> 0, padding |-> "valid",
     pool_size |-> pool_size, strides |-> strides, units |-> 0]
Dense(units) ==
    [kind |-> "dense", filters |-> 0, kernel_size |-> 0, padding |-> "valid",
     pool_size |-> 0, strides |-> 1, units |-> units]
Other(kind) ==
    [kind |-> kind, filters |-> 0, kernel_size |-> 0, padding |-> "valid",
     pool_size |-> 0, strides |-> 1, units |-> 0]
Activation == Other("activation")
BatchNormalization == Other("batchnorm")
Dropout == Other("dropout")
Flatten == Other("flatten")

Layers ==
    << Conv2D(32, 3, "same"), Activation, BatchNormalization,
       Conv2D(32, 3, "valid"), Activation, BatchNormalization,
       Conv2D(32, 5, "valid"), Activation, MaxPooling2D(2, 2),
       BatchNormalization, Dropout,
       Conv2D(64, 3, "valid"), Activation, BatchNormalization,
       Conv2D(64, 3, "valid"), Activation, BatchNormalization,
       Conv2D(64, 5, "same"), Activation, BatchNormalization,
       MaxPooling2D(2, 2), Dropout,
       Flatten, Dense(128), Activation, BatchNormalization, Dropout,
       BatchNormalization, Dense(10), Activation >>

\* Keras's conv_output_length(input_length, filter_size, padding, stride).
\* (First a faulty variant that shrinks an unpadded extent by kernel_size.)
conv_output_length_shrink_k(n, k, padding, stride) ==
    LET len == IF padding = "same" THEN n ELSE n - k
    IN (len + stride - 1) \div stride
conv_output_length(n, k, padding, stride) ==
    LET len == IF padding = "same" THEN n ELSE n - k + 1
    IN (len + stride - 1) \div stride

RECURSIVE Product(_, _)
Product(s, n) == IF n = 0 THEN 1 ELSE s[n] * Product(s, n - 1)

NoShape == <<>>
\* The output shape of layer l on input shape sh, or NoShape where Keras
\* raises: a convolution or pooling needs (rows, cols, channels) and an
\* output of at least 1 x 1.
compute_output_shape(l, sh) ==
    CASE l.kind = "conv" ->
           IF Len(sh) # 3 THEN NoShape
           ELSE LET r == conv_output_length(sh[1], l.kernel_size, l.padding, l.strides)
                    c == conv_output_length(sh[2], l.kernel_size, l.padding, l.strides)
                IN IF r < 1 \/ c < 1 THEN NoShape ELSE <<r, c, l.filters>>
      [] l.kind = "pool" ->
           IF Len(sh) # 3 THEN NoShape
           ELSE LET r == conv_output_length(sh[1], l.pool_size, "valid", l.strides)
                    c == conv_output_length(sh[2], l.pool_size, "valid", l.strides)
                IN IF r < 1 \/ c < 1 THEN NoShape ELSE <<r, c, sh[3]>>
      [] l.kind = "flatten" -> <<Product(sh, Len(sh))>>
      [] l.kind = "dense" -> [i \in 1..Len(sh) |-> IF i = Len(sh) THEN l.units ELSE sh[i]]
      [] OTHER -> sh

InitBuild ==
    /\ bpc = "building"
    /\ input_shape \in {<<r, c, 1>> : r \in 1..MaxSide, c \in 1..MaxSide}
    /\ layer_index = 0
    /\ shape = input_shape
    /\ shape_log = <<>>

\* The next layer of the list is added to the model.
AddLayer ==
    /\ bpc = "building"
    /\ layer_index < Len(Layers)
    /\ LET out == compute_output_shape(Layers[layer_index + 1], shape) IN
       IF out = NoShape
       THEN /\ bpc' = "failed"
            /\ UNCHANGED <<layer_index, shape, shape_log>>
       ELSE /\ bpc' = "building"
            /\ layer_index' = layer_index + 1
            /\ shape' = out
            /\ shape_log' = Append(shape_log, out)
    /\ UNCHANGED input_shape
    /\ UNCHANGED <<fitVars, encVars, batchVars>>

\* Sequential returns the model (lines 158, 171).
Built ==
    /\ bpc = "building"
    /\ layer_index = Len(Layers)
    /\ bpc' = "built"
    /\ UNCHANGED <<input_shape, layer_index, shape, shape_log>>
    /\ UNCHANGED <<fitVars, encVars, batchVars>>

NextBuild == AddLayer \/ Built

SpecBuildInit == IdleFit /\ IdleEncode /\ InitBuild /\ IdleBatch
SpecBuild == SpecBuildInit /\ [][NextBuild]_vars

\* The spatial extent the claim gives after each of the 22 layers before
\* Flatten.
ExpectedExtent ==
    << 28, 28, 28,  26, 26, 26,  22, 22, 11, 11, 11,
       9, 9, 9,  7, 7, 7,  7, 7, 7, 3, 3 >>

\* C8: from a 28x28x1 input no layer of the stack is refused; the spatial
\* extents are 28, 26, 22, 11 (pooled), 9, 7, 7, 3 (pooled), each at least 1;
\* Flatten hands the first Dense layer a vector of 3*3*64 = 576 values, and
\* the model's output has exactly 10 entries.
C8_ShapesPropagate ==
    input_shape = <<28, 28, 1>> =>
        /\ bpc # "failed"
        /\ \A i \in 1..Len(shape_log) :
              /\ i <= 22 =>
                    /\ Len(shape_log[i]) = 3
                    /\ shape_log[i][1] = ExpectedExtent[i]
                    /\ shape_log[i][2] = ExpectedExtent[i]
                    /\ shape_log[i][1] >= 1
              /\ i = 22 => shape_log[i] = <<3, 3, 64>>
              /\ i = 23 => shape_log[i] = <<3 * 3 * 64>> /\ shape_log[i] = <<576>>
              /\ i > 23 => Len(shape_log[i]) = 1
        /\ bpc = "built" => (layer_index = 30 /\ shape = <<10>>)
C8_Witness ==
    /\ input_shape = <<28, 28, 1>>
    /\ bpc = "built"
    /\ Len(shape_log) = 30
    /\ shape_log[23] = <<576>>
    /\ shape = <<10>>

(***************************************************************************)
(* The validation split and the batches of one epoch inside model.fit      *)
(* (lines 196-202: batch_size=BATCH, shuffle=SHUFFLE,                      *)
(* validation_split=SPLIT).                                                *)
(***************************************************************************)
\* split_at = int(math.floor(n * (1. - validation_split))): the samples
\* before split_at are the training pool, those from split_at on are held
\* out.
split_at(n) == (n * (10 - SPLIT_TENTHS)) \div 10

\* The length of the next batch when r samples of the epoch's order are
\* left: batch_size, or what is left (0: the order is exhausted).  (First a
\* faulty variant that drops a final batch shorter than batch_size.)
batch_length_drop_remainder(r) == IF r >= BATCH THEN BATCH ELSE 0
batch_length(r) == IF r >= BATCH THEN BATCH ELSE r

\* The subsets of U with k elements.
RECURSIVE KSubsets(_, _)
KSubsets(U, k) ==
    IF k = 0 THEN {{}}
    ELSE {T \in {W \cup {x} : W \in KSubsets(U, k - 1), x \in U} : Cardinality(T) = k}
\* The k lowest-numbered samples of U.
Lowest(U, k) == {x \in U : Cardinality({y \in U : y < x}) < k}

\* The next batch of the epoch's order.  The order is a permutation of the
\* pool, cut into consecutive batches; it is drawn here as the loop consumes
\* it: with shuffle the next batch_length entries of a shuffled order are any
\* batch_length samples the order has not yet placed (a train step does not
\* depend on the order inside its batch), so every one of the n! orders is a
\* behaviour; without shuffle they are the lowest-numbered ones.  rest is
\* what the order has not yet placed.
NextBatches(rest) ==
    LET len == batch_length(Cardinality(rest)) IN
    IF SHUFFLE
    THEN {rest \ L : L \in KSubsets(rest, Cardinality(rest) - len)}
    ELSE {Lowest(rest, len)}

\* The samples this epoch's order has placed so far.
Placed(ind) == UNION {ind[b] : b \in 1..Len(ind)}
TrainingPool(n) == 1..split_at(n)

\* fit is entered with at least SAMPLES_SHOWN samples (lines 97-101 have
\* run).
InitBatch ==
    /\ phase = "split"
    /\ num_samples \in SAMPLES_SHOWN..MaxSamples
    /\ val_set = {}
    /\ bepoch = 0
    /\ indices = <<>>
    /\ batch = {}
    /\ step = 0
    /\ trained = [i \in 1..num_samples |-> 0]
    /\ updates = 0
    /\ batch_sizes = <<>>
    /\ validated = <<>>

\* validation_split: fit holds out the samples from split_at on, once,
\* before the first epoch.
SplitValidation ==
    /\ phase = "split"
    /\ val_set' = (split_at(num_samples) + 1)..num_samples
    /\ phase' = "between"
    /\ UNCHANGED <<num_samples, bepoch, indices, batch, step, trained, updates,
                   batch_sizes, validated>>
    /\ UNCHANGED <<fitVars, encVars, buildVars>>

\* An epoch begins, unless a callback has set stop_training.
BeginEpoch ==
    /\ phase = "between"
    /\ bepoch < EPOCHS
    /\ ~stop_training
    /\ phase' = "epoch"
    /\ indices' = <<>>
    /\ step' = 0
    /\ trained' = [i \in 1..num_samples |-> 0]
    /\ updates' = 0
    /\ batch_sizes' = <<>>
    /\ UNCHANGED <<num_samples, val_set, bepoch, batch, validated>>
    /\ UNCHANGED <<fitVars, encVars, buildVars>>

\* The next batch is taken from the epoch's order.
TakeBatch ==
    /\ phase = "epoch"
    /\ batch = {}
    /\ LET rest == TrainingPool(num_samples) \ Placed(indices) IN
       /\ batch_length(Cardinality(rest)) > 0
       /\ \E members \in NextBatches(rest) :
             /\ batch' = members
             /\ indices' = Append(indices, members)
             /\ batch_sizes' = Append(batch_sizes, Cardinality(members))
    /\ UNCHANGED <<phase, num_samples, val_set, bepoch, step, trained, updates, validated>>
    /\ UNCHANGED <<fitVars, encVars, buildVars>>

\* One train step on the batch taken: forward pass, loss, backward pass and
\* one parameter update.
TrainStep ==
    /\ phase = "epoch"
    /\ batch # {}
    /\ trained' = [i \in 1..num_samples |-> IF i \in batch THEN trained[i] + 1 ELSE trained[i]]
    /\ updates' = updates + 1
    /\ step' = step + 1
    /\ batch' = {}
    /\ UNCHANGED <<phase, num_samples, val_set, bepoch, indices, batch_sizes, validated>>
    /\ UNCHANGED <<fitVars, encVars, buildVars>>

\* The order is exhausted: the validation pass runs on val_set (no update)
\* and the epoch ends.  EarlyStopping may set stop_training then, from the
\* epoch on at which patience epochs have passed (the losses that decide it
\* are those of the training run above).
EndEpoch ==
    /\ phase = "epoch"
    /\ batch = {}
    /\ batch_length(Cardinality(TrainingPool(num_samples) \ Placed(indices))) = 0
    /\ validated' = Append(validated, val_set)
    /\ bepoch' = bepoch + 1
    /\ phase' = "between"
    /\ stop_training' \in (IF bepoch + 1 >= patience THEN BOOLEAN ELSE {FALSE})
    /\ UNCHANGED <<num_samples, val_set, indices, batch, step, trained, updates, batch_sizes>>
    /\ UNCHANGED <<pc, build, epoch, weights, wait, best, best_weights,
                   stopped_epoch, history, report>>
    /\ UNCHANGED <<encVars, buildVars>>

NextBatch == SplitValidation \/ BeginEpoch \/ TakeBatch \/ TrainStep \/ EndEpoch

SpecBatchInit == IdleFit /\ IdleEncode /\ IdleBuild /\ InitBatch
SpecBatch == SpecBatchInit /\ [][NextBatch]_vars

\* The last validation_fraction of the samples: the k highest-numbered,
\* for the least k with k / n >= SPLIT.
LastFraction(n) ==
    LET k == CHOOSE j \in 1..n : 10 * j >= n * SPLIT_TENTHS /\ 10 * (j - 1) < n * SPLIT_TENTHS
    IN (n - k + 1)..n
Pool == (1..num_samples) \ LastFraction(num_samples)
EpochComplete == phase = "between" /\ bepoch > 0

\* C9: once fit has split the samples the validation set is the last tenth
\* of them (rounded up), and it is what the validation pass of every epoch
\* used; no validation sample is ever in a training batch; the batches of an
\* epoch are pairwise disjoint, so no pool sample is in two of them, and when
\* the epoch is complete every pool sample has been in exactly one; every
\* batch but the last has BATCH (32) samples, the last between 1 and BATCH;
\* and one parameter update is performed per batch: while a batch awaits its
\* train step the updates are one fewer than the batches taken, otherwise as
\* many, and every batch taken has been trained on exactly once.
C9_BatchesPartitionPool ==
    LET last == LastFraction(num_samples) IN
    phase # "split" =>
        /\ val_set = last
        /\ Len(validated) = bepoch
        /\ \A e \in 1..Len(validated) : validated[e] = last
        /\ \A i \in last : trained[i] = 0
        /\ \A b \in 1..Len(indices) : indices[b] \cap last = {}
        /\ \A b, c \in 1..Len(indices) : b # c => indices[b] \cap indices[c] = {}
        /\ \A i \in Pool : trained[i] <= 1
        /\ EpochComplete => \A i \in Pool : trained[i] = 1
        /\ Len(batch_sizes) = Len(indices)
        /\ \A b \in 1..Len(batch_sizes) :
              /\ batch_sizes[b] = Cardinality(indices[b])
              /\ batch_sizes[b] \in 1..BATCH
              /\ b < Len(batch_sizes) => batch_sizes[b] = BATCH
        /\ updates = IF batch = {} THEN Len(batch_sizes) ELSE Len(batch_sizes) - 1
        /\ \A b \in 1..Len(indices) :
              \A i \in indices[b] : trained[i] = IF b <= updates THEN 1 ELSE 0
        /\ EpochComplete =>
              /\ (Len(batch_sizes) - 1) * BATCH < Cardinality(Pool)
              /\ Cardinality(Pool) <= Len(batch_sizes) * BATCH
\* A second epoch is complete after two batches, the first of them not the
\* first BATCH samples of the pool, the last shorter than BATCH.
C9_Witness ==
    /\ EpochComplete
    /\ bepoch = 2
    /\ Len(batch_sizes) = 2
    /\ batch_sizes[2] < BATCH
    /\ indices[1] # 1..BATCH
    /\ updates = 2
    /\ validated = <<val_set, val_set>>
    /\ \A i \in Pool : trained[i] = 1

====
